---- MODULE Spec2Model ----
(***************************************************************************)
(* Model of the lazy basic-block compiler and self-patching dispatcher of  *)
(* src/vm/interp.cpp (initInterp, getBlockVersion, compile, execCode,      *)
(* callFun).                                                               *)
(*                                                                         *)
(* Addresses in the code heap are byte offsets from codeHeap; stack slots  *)
(* are Value indices from stackLimit.  assert() is modelled as enabled: a  *)
(* failed assertion aborts the process (status "fatal").  A RunError that  *)
(* leaves callFun is status "error": the process goes on and the embedder  *)
(* may call callFun again.                                                 *)
(***************************************************************************)
EXTENDS Integers, Sequences, FiniteSets, TLC

(***************************************************************************)
(* Bounds of the model                                                     *)
(***************************************************************************)
\* capacity of the code heap in bytes (1 << 20 in the source), scaled down
\* to the size of the counted-loop program, which fills it exactly
CODE_HEAP_INIT_SIZE == 92
\* number of top-level callFun invocations explored
MaxCalls == 2
\* largest loop counter of the counted-loop program
MaxN == 2
\* number of opcodes decoded from bytes the compiler never wrote that a run
\* is followed through
MaxWild == 1
\* the count of fetched opcodes stops growing here
StepCap == 6 * MaxN + 10
\* largest number of fields of the objects an ICache is tried on
MaxFields == 2

(***************************************************************************)
(* Program constants                                                       *)
(***************************************************************************)
\* number of Values allocated for the stack
STACK_INIT_SIZE == 65536
\* sizeof(Word): the number of slots initInterp puts between stackLimit and
\* stackBottom
SizeofWord == 8
\* sizeof(Opcode), Opcode : uint16_t
SizeofOpcode == 2
\* sizeof(uint16_t), the operand of DUP
SizeofIdx == 2
\* sizeof(uint8_t*) and sizeof(BlockVersion*), a branch operand
SizeofPtr == 8
\* sizeof(Value): a Word and a tag, as written by writeCode(val)
SizeofValue == 16
\* 2^16, the range of the uint16_t conversion in compile (dup)
TwoPow16 == 65536

NULL == -1

(***************************************************************************)
(* Values                                                                  *)
(***************************************************************************)
I64(n) == [tag |-> "int64", w |-> n]
TRUE_V == [tag |-> "bool", w |-> 1]
FALSE_V == [tag |-> "bool", w |-> 0]
UNDEF == [tag |-> "undef", w |-> 0]
\* Value(nullptr, TAG_RETADDR)
RetAddrNull == [tag |-> "retaddr", w |-> 0]

\* literals the program image may push
Literals == {I64(0), I64(777), TRUE_V}
\* argument vectors handed to callFun
ArgVecs == {<<>>, <<I64(5)>>, <<I64(5), I64(6)>>, <<I64(5), I64(0)>>}
\* indices the image's dup instruction may carry (the last one is -1, which
\* the uint16_t conversion turns into 65535)
DupIdxs == {0, 1, 2, 3, -1}

(***************************************************************************)
(* Pointers stored in the code heap: a code address or a BlockVersion*     *)
(***************************************************************************)
AddrPtr(a) == [t |-> "addr", a |-> a]
VerPtr(i) == [t |-> "ver", a |-> i]
WildPtr == [t |-> "wild", a |-> 0]

codeHeap == 0
codeHeapLimit == codeHeap + CODE_HEAP_INIT_SIZE
stackLimit == 0
stackBottom == stackLimit + SizeofWord

VARIABLES
    litV,          \* image: the literal of the push instructions
    loopN,         \* image: the initial counter of the counted loop
    dupIdx,        \* image: the idx field of the dup instruction
    code,          \* code heap contents: start address -> cell written there
    codeHeapAlloc, \* allocation cursor
    oobWrite,      \* some byte at or beyond codeHeapLimit was written
    versionMap,    \* block -> VersionList (sequence of version ids)
    vers,          \* the BlockVersion objects, in allocation order
    stack,         \* stack slots
    stackPtr,
    basePtr,
    instrPtr,
    status,        \* "idle", "running", "error", "fatal"
    retVal,        \* value returned by the last callFun that returned
    curFun,        \* function of the running / last callFun
    curArgs,       \* its arguments
    compileCount,  \* block -> number of compile() invocations on its version
    calls,         \* number of callFun invocations so far
    steps,         \* opcodes the current callFun fetched (up to StepCap)
    wild,          \* opcodes decoded so far from bytes compile did not write
    entered,       \* codeHeapAlloc and stackPtr when callFun was last entered
    prior,         \* whether the call before the last one was made on the
                   \* same function and arguments and returned, and its value
    icFieldName,   \* an ICache object: its fieldName
    icSlotIdx,     \* its slotIdx
    icObj,         \* the object of its last getField
    icHint,        \* slotIdx when that getField was called
    icRes,         \* "none", "ok" (it returned icVal) or "error" (RunError)
    icVal          \* the value it returned

\* the ICache object
icVars == <<icFieldName, icSlotIdx, icObj, icHint, icRes, icVal>>

vars == <<litV, loopN, dupIdx, code, codeHeapAlloc, oobWrite, versionMap,
          vers, stack, stackPtr, basePtr, instrPtr, status, retVal, curFun,
          curArgs, compileCount, calls, steps, wild, entered, prior,
          icFieldName,
          icSlotIdx, icObj, icHint, icRes, icVal>>

(***************************************************************************)
(* The program image (produced by the parser, never mutated by the core):  *)
(* instruction objects, block objects and function objects.  An object is  *)
(* a record; a field the object lacks is absent from the record's domain.  *)
(***************************************************************************)
IPush(v) == [op |-> "push", val |-> v]
IDup(i) == [op |-> "dup", idx |-> i]
ISub == [op |-> "sub_i64"]
ILt == [op |-> "lt_i64"]
IGt == [op |-> "gt_i64"]
IJump(b) == [op |-> "jump", to |-> b]
IIfTrue(t, e) == [op |-> "if_true", then |-> t, else |-> e]
IRet == [op |-> "ret"]

BlockIds == {"cst", "loopEntry", "loop", "exit", "dupB", "brEntry", "brSame",
             "thenB", "elseB", "spin", "empty", "jmpEmpty", "badOp", "jmpBad",
             "noVal", "noInstrs", "extra", "sub1", "cmp", "brEmpty",
             "popLoop", "brArg", "jmpArg"}

\* the block object of each block identity
BlockObj(b) ==
    CASE b = "cst"       -> [instrs |-> <<IPush(litV), IRet>>]
      [] b = "loopEntry" -> [instrs |-> <<IPush(I64(loopN)), IJump("loop")>>]
      [] b = "loop"      -> [instrs |-> <<IPush(I64(1)), ISub, IDup(0),
                                          IPush(I64(0)), IGt,
                                          IIfTrue("loop", "exit")>>]
      [] b = "exit"      -> [instrs |-> <<IRet>>]
      [] b = "dupB"      -> [instrs |-> <<IPush(litV), IDup(dupIdx), ISub,
                                          IRet>>]
      [] b = "brEntry"   -> [instrs |-> <<IPush(litV),
                                          IIfTrue("thenB", "elseB")>>]
      [] b = "brSame"    -> [instrs |-> <<IPush(litV),
                                          IIfTrue("thenB", "thenB")>>]
      [] b = "thenB"     -> [instrs |-> <<IPush(I64(1)), IRet>>]
      [] b = "elseB"     -> [instrs |-> <<IPush(I64(2)), IRet>>]
      [] b = "spin"      -> [instrs |-> <<IJump("spin")>>]
      [] b = "empty"     -> [instrs |-> << >>]
      [] b = "jmpEmpty"  -> [instrs |-> <<IJump("empty")>>]
      [] b = "badOp"     -> [instrs |-> <<IPush(litV), [op |-> "nop"]>>]
      [] b = "jmpBad"    -> [instrs |-> <<IJump("badOp")>>]
      [] b = "noVal"     -> [instrs |-> <<[op |-> "push"]>>]
      [] b = "noInstrs"  -> [src_pos |-> 0]
      [] b = "extra"     -> [instrs |-> <<IPush(I64(1)), IPush(litV), IRet>>]
      [] b = "sub1"      -> [instrs |-> <<IPush(I64(1)), ISub, IRet>>]
      [] b = "cmp"       -> [instrs |-> <<IPush(I64(1)), IPush(I64(2)), ILt,
                                          IIfTrue("thenB", "elseB")>>]
      [] b = "brEmpty"   -> [instrs |-> <<IPush(litV),
                                          IIfTrue("empty", "thenB")>>]
      [] b = "popLoop"   -> [instrs |-> <<IIfTrue("popLoop", "popLoop")>>]
      [] b = "brArg"     -> [instrs |-> <<IDup(0), IIfTrue("thenB", "elseB")>>]
      [] b = "jmpArg"    -> [instrs |-> <<IJump("brArg")>>]

\* the images explored: the test image (push 777, a loop of one iteration,
\* dup 0) and every image that differs from it in one of the three
Images == {<<l, 1, 0>> : l \in Literals}
            \cup {<<I64(777), n, 0>> : n \in 1..MaxN}
            \cup {<<I64(777), 1, d>> : d \in DupIdxs}

Fun(e, np, nl) == [entry |-> e, num_params |-> np, num_locals |-> nl]

\* the function objects exported by the image
Funs == {Fun("cst", 0, 0), Fun("cst", 1, 1), Fun("cst", 2, 2),
         Fun("cst", 0, 6), Fun("cst", 0, 7), Fun("cst", 2, 1),
         Fun("loopEntry", 0, 0), Fun("dupB", 0, 0), Fun("dupB", 1, 1),
         Fun("brEntry", 0, 0), Fun("brSame", 0, 0), Fun("thenB", 0, 0),
         Fun("exit", 0, 0), Fun("exit", 1, 1), Fun("spin", 0, 0),
         Fun("empty", 0, 0), Fun("jmpEmpty", 0, 0), Fun("jmpBad", 0, 0),
         Fun("badOp", 0, 0), Fun("noVal", 0, 0), Fun("noInstrs", 0, 0),
         Fun("extra", 0, 0), Fun("sub1", 0, 1), Fun("sub1", 1, 1), Fun("cmp", 0, 0),
         Fun("brEmpty", 0, 0), Fun("popLoop", 0, 0), Fun("jmpArg", 1, 1),
         [entry |-> "cst", num_params |-> 0],
         [num_params |-> 0, num_locals |-> 0]}

(***************************************************************************)
(* Code heap                                                               *)
(***************************************************************************)
OpCell(o) == [k |-> "op", v |-> o, sz |-> SizeofOpcode]
ValCell(v) == [k |-> "val", v |-> v, sz |-> SizeofValue]
IdxCell(i) == [k |-> "idx", v |-> i, sz |-> SizeofIdx]
PtrCell(p) == [k |-> "ptr", v |-> p, sz |-> SizeofPtr]

\* *heapPtr = val: the cell now starts at a; what it overlaps is gone
Store(mem, a, cell) ==
    LET keep == {c \in DOMAIN mem : c + mem[c].sz <= a \/ c >= a + cell.sz}
    IN  [c \in keep \cup {a} |-> IF c = a THEN cell ELSE mem[c]]

\* the interpreter's globals as one record; res is "ok", "error" (a RunError
\* is propagating), "fatal" (the process aborted) or "ret" (execCode returned)
Cur == [code |-> code, alloc |-> codeHeapAlloc, oob |-> oobWrite,
        vmap |-> versionMap, vers |-> vers, cc |-> compileCount,
        stack |-> stack, sp |-> stackPtr, bp |-> basePtr, ip |-> instrPtr,
        ret |-> retVal, res |-> "ok"]

writeCode(st, cell) ==
    IF ~(st.alloc < codeHeapLimit)
    THEN [st EXCEPT !.res = "fatal"]
    ELSE [st EXCEPT !.code = Store(st.code, st.alloc, cell),
                    !.alloc = st.alloc + cell.sz,
                    !.oob = st.oob \/ (st.alloc + cell.sz > codeHeapLimit),
                    !.res = IF st.alloc + cell.sz <= codeHeapLimit
                            THEN "ok" ELSE "fatal"]

\* consecutive writeCode calls; the first failed assertion ends them
RECURSIVE Emit(_, _)
Emit(st, cells) ==
    IF cells = << >> \/ st.res # "ok" THEN st
    ELSE Emit(writeCode(st, Head(cells)), Tail(cells))

(***************************************************************************)
(* Version table                                                           *)
(***************************************************************************)
BlockVersion(block) == [block |-> block, startPtr |-> NULL, endPtr |-> NULL]

\* getBlockVersion without the lookup
getBlockVersion_AlwaysNew(st, block) ==
    LET newVersion == Len(st.vers) + 1
    IN  [st |-> [st EXCEPT
                   !.vers = Append(st.vers, BlockVersion(block)),
                   !.vmap = [b \in DOMAIN st.vmap \cup {block} |->
                               IF b # block THEN st.vmap[b]
                               ELSE IF block \in DOMAIN st.vmap
                               THEN Append(st.vmap[block], newVersion)
                               ELSE <<newVersion>>]],
         ver |-> newVersion]

\* result: st is the state afterwards, ver the version returned
getBlockVersion(st, block) ==
    IF block \notin DOMAIN st.vmap
    THEN LET newVersion == Len(st.vers) + 1
         IN  [st |-> [st EXCEPT
                        !.vers = Append(st.vers, BlockVersion(block)),
                        !.vmap = [b \in DOMAIN st.vmap \cup {block} |->
                                    IF b = block THEN <<newVersion>>
                                    ELSE st.vmap[b]]],
              ver |-> newVersion]
    ELSE IF Len(st.vmap[block]) # 1
         THEN [st |-> [st EXCEPT !.res = "fatal"], ver |-> 0]
         ELSE [st |-> st, ver |-> st.vmap[block][1]]

(***************************************************************************)
(* Compiler                                                                *)
(***************************************************************************)
\* ICache::getField: the field is there or a RunError is thrown
hasField(obj, name) == name \in DOMAIN obj

\* (uint16_t)idx
ToUint16(i) == i % TwoPow16

Throw(st) == [st EXCEPT !.res = "error"]

\* one iteration of the loop of compile
compileInstr(st, instr) ==
    IF ~hasField(instr, "op") THEN Throw(st)
    ELSE CASE instr.op = "push" ->
                IF ~hasField(instr, "val") THEN Throw(st)
                ELSE Emit(st, <<OpCell("PUSH"), ValCell(instr.val)>>)
           [] instr.op = "dup" ->
                IF ~hasField(instr, "idx") THEN Throw(st)
                ELSE Emit(st, <<OpCell("DUP"), IdxCell(ToUint16(instr.idx))>>)
           [] instr.op = "sub_i64" -> Emit(st, <<OpCell("SUB_I64")>>)
           [] instr.op = "lt_i64" -> Emit(st, <<OpCell("LT_I64")>>)
           [] instr.op = "gt_i64" -> Emit(st, <<OpCell("GT_I64")>>)
           [] instr.op = "jump" ->
                IF ~hasField(instr, "to") THEN Throw(st)
                ELSE LET dst == getBlockVersion(st, instr.to)
                     IN  Emit(dst.st, <<OpCell("JUMP_STUB"),
                                        PtrCell(VerPtr(dst.ver))>>)
           [] instr.op = "if_true" ->
                IF ~hasField(instr, "then") THEN Throw(st)
                ELSE IF ~hasField(instr, "else") THEN Throw(st)
                ELSE LET th == getBlockVersion(st, instr.then)
                         el == getBlockVersion(th.st, instr.else)
                     IN  Emit(el.st, <<OpCell("IF_TRUE"),
                                       PtrCell(VerPtr(th.ver)),
                                       PtrCell(VerPtr(el.ver))>>)
           [] instr.op = "ret" -> Emit(st, <<OpCell("RET")>>)
           [] OTHER -> Throw(st)

RECURSIVE compileLoop(_, _, _)
compileLoop(st, instrs, i) ==
    IF i > Len(instrs) \/ st.res # "ok" THEN st
    ELSE compileLoop(compileInstr(st, instrs[i]), instrs, i + 1)

compile(st, version) ==
    LET block == st.vers[version].block
        st0 == [st EXCEPT !.cc[block] = @ + 1]
    IN  IF ~hasField(BlockObj(block), "instrs") THEN Throw(st0)
        ELSE LET st1 == [st0 EXCEPT !.vers[version].startPtr = st0.alloc]
                 st2 == compileLoop(st1, BlockObj(block).instrs, 1)
             IN  IF st2.res # "ok" THEN st2
                 ELSE [st2 EXCEPT !.vers[version].endPtr = st2.alloc]

(***************************************************************************)
(* Value stack                                                             *)
(***************************************************************************)
Fatal(m) == [m EXCEPT !.res = "fatal"]

StackStore(stk, i, v) ==
    [j \in DOMAIN stk \cup {i} |-> IF j = i THEN v ELSE stk[j]]

\* values a read of slot i may give: the slot's content inside the allocated
\* array, anything outside it
GarbageVals == {UNDEF, I64(0), RetAddrNull}
StackRead(stk, i) ==
    IF i \in DOMAIN stk THEN {stk[i]}
    ELSE IF i >= stackLimit /\ i < stackLimit + STACK_INIT_SIZE THEN {UNDEF}
    ELSE GarbageVals

\* pushVal storing at the old stackPtr
pushVal_OffByOne(m, val) ==
    IF ~(m.sp > stackLimit) THEN [m EXCEPT !.res = "fatal"]
    ELSE [m EXCEPT !.sp = m.sp - 1,
                   !.stack = StackStore(m.stack, m.sp, val)]

pushVal(m, val) ==
    IF ~(m.sp > stackLimit) THEN Fatal(m)
    ELSE [m EXCEPT !.sp = m.sp - 1,
                   !.stack = StackStore(m.stack, m.sp - 1, val)]

\* popVal: the state afterwards; the value returned is PopTop(m)
PopTop(m) == m.stack[m.sp]

\* a popVal that does not move stackPtr
popVal_NoIncrement(m) ==
    IF ~(m.sp < stackBottom) THEN [m EXCEPT !.res = "fatal"]
    ELSE m

popVal(m) ==
    IF ~(m.sp < stackBottom) THEN Fatal(m)
    ELSE [m EXCEPT !.sp = m.sp + 1]

(***************************************************************************)
(* callFun up to the call of execCode                                      *)
(***************************************************************************)
RECURSIVE copyArgs(_, _, _, _)
copyArgs(stk, bp, args, i) ==
    IF i > Len(args) THEN stk
    ELSE copyArgs(StackStore(stk, bp + (i - 1), args[i]), bp, args, i + 1)

\* assert (args.size() <= numParams)
ArityOk(nargs, numParams) == nargs <= numParams

\* an eager callFun: it also compiles the last placeholder the entry block
\* created
compileEntry_Eager(m, entryVer) ==
    LET m1 == compile(m, entryVer)
        last == Len(m1.vers)
    IN  IF m1.res = "ok" /\ m1.vers[last].startPtr = NULL
        THEN compile(m1, last) ELSE m1

\* generate code for the entry block version
compileEntry(m, entryVer) == compile(m, entryVer)

callFunEnter(m, fun, args) ==
    IF ~hasField(fun, "num_params") \/ ~hasField(fun, "num_locals")
    THEN Throw(m)
    ELSE IF ~ArityOk(Len(args), fun.num_params) THEN Fatal(m)
    ELSE IF ~(fun.num_params <= fun.num_locals) THEN Fatal(m)
    ELSE IF ~(m.sp = stackBottom) THEN Fatal(m)
    ELSE
    LET m1 == pushVal(m, I64(0))
        m2 == IF m1.res = "ok" THEN pushVal(m1, RetAddrNull) ELSE m1
    IN  IF m2.res # "ok" THEN m2
        ELSE
        LET m3 == [m2 EXCEPT !.bp = m2.sp - 1,
                             !.sp = m2.sp - fun.num_locals]
        IN  IF ~(m3.sp >= stackLimit) THEN Fatal(m3)
            ELSE
            LET m4 == [m3 EXCEPT !.stack = copyArgs(m3.stack, m3.bp, args, 1)]
            IN  IF ~hasField(fun, "entry") THEN Throw(m4)
                ELSE
                LET ev == getBlockVersion(m4, fun.entry)
                    m5 == IF ev.st.res = "ok" THEN compileEntry(ev.st, ev.ver)
                          ELSE ev.st
                IN  IF m5.res # "ok" THEN m5
                    ELSE IF ~(m5.vers[ev.ver].endPtr
                                - m5.vers[ev.ver].startPtr > 0)
                    THEN Fatal(m5)
                    ELSE LET m6 == [m5 EXCEPT
                                      !.ip = m5.vers[ev.ver].startPtr]
                         IN  IF m6.ip >= codeHeap /\ m6.ip < codeHeapLimit
                             THEN m6 ELSE Fatal(m6)

\* callFunLeave without its assertion
callFunLeave_NoAssert(m, fun) == [m EXCEPT !.sp = m.sp + fun.num_locals + 2]

\* callFun after execCode returned retVal
callFunLeave(m, fun) ==
    LET m1 == [m EXCEPT !.sp = m.sp + fun.num_locals + 2]
    IN  IF m1.sp = stackBottom THEN m1 ELSE Fatal(m1)

(***************************************************************************)
(* Dispatcher: one operator per case of the switch of execCode.  a is the  *)
(* address of the opcode; operands are what readCode returned.             *)
(***************************************************************************)
\* an instruction pointer outside the code heap
WildAddr == -2

\* the address n bytes after a
Adv(a, n) == IF a = WildAddr THEN WildAddr ELSE a + n

\* a store through a reference readCode returned
Patch(mem, a, cell) == IF a = WildAddr THEN mem ELSE Store(mem, a, cell)

\* Value::operator int64_t
IsInt64(v) == v.tag = "int64"

\* an integer instruction that pops one operand only
popArgs_OnePop(m) == popVal(m)

\* the two pops of an integer instruction: arg1 is popped first
popArgs(m) ==
    LET m1 == popVal(m)
    IN  IF m1.res = "ok" THEN popVal(m1) ELSE m1
PoppedArg1(m) == PopTop(m)
PoppedArg0(m) == PopTop(popVal(m))

\* the casts (int64_t)arg0 and (int64_t)arg1
ArgsAreInt64(m) == IsInt64(PoppedArg0(m)) /\ IsInt64(PoppedArg1(m))

SubI64(x, y) == I64(x - y)
LtI64(x, y) == IF x < y THEN TRUE_V ELSE FALSE_V
GtI64(x, y) == IF x > y THEN TRUE_V ELSE FALSE_V

execPUSH(m, a, val) ==
    pushVal([m EXCEPT !.ip = Adv(a, SizeofOpcode + SizeofValue)], val)

\* val is what stackPtr[idx] gave
execDUP(m, a, val) ==
    pushVal([m EXCEPT !.ip = Adv(a, SizeofOpcode + SizeofIdx)], val)

execSUB_I64(m, a) ==
    LET m0 == [m EXCEPT !.ip = Adv(a, SizeofOpcode)]
        m2 == popArgs(m0)
    IN  IF m2.res # "ok" THEN m2
        ELSE IF ~ArgsAreInt64(m0) THEN Fatal(m2)
        ELSE pushVal(m2, SubI64(PoppedArg0(m0).w, PoppedArg1(m0).w))

execLT_I64(m, a) ==
    LET m0 == [m EXCEPT !.ip = Adv(a, SizeofOpcode)]
        m2 == popArgs(m0)
    IN  IF m2.res # "ok" THEN m2
        ELSE IF ~ArgsAreInt64(m0) THEN Fatal(m2)
        ELSE pushVal(m2, LtI64(PoppedArg0(m0).w, PoppedArg1(m0).w))

execGT_I64(m, a) ==
    LET m0 == [m EXCEPT !.ip = Adv(a, SizeofOpcode)]
        m2 == popArgs(m0)
    IN  IF m2.res # "ok" THEN m2
        ELSE IF ~ArgsAreInt64(m0) THEN Fatal(m2)
        ELSE pushVal(m2, GtI64(PoppedArg0(m0).w, PoppedArg1(m0).w))

\* a stub resolution that compiles whether or not the target has code
NeedsCompile_Always(m, ver) == TRUE

\* if (!ver->startPtr) compile(ver)
NeedsCompile(m, ver) == m.vers[ver].startPtr = NULL
resolve(m, ver) == IF NeedsCompile(m, ver) THEN compile(m, ver) ELSE m

\* a resolution that stores the address and leaves the stub opcode
PatchedJump_StillStub(start) ==
    <<OpCell("JUMP_STUB"), PtrCell(AddrPtr(start))>>

\* the opcode and operand written over a resolved jump stub
PatchedJump(start) == <<OpCell("JUMP"), PtrCell(AddrPtr(start))>>

execJUMP_STUB(m, a, dstAddr) ==
    IF dstAddr.t # "ver"
    THEN Fatal([m EXCEPT !.ip = Adv(a, SizeofOpcode + SizeofPtr)])
    ELSE LET dstVer == dstAddr.a
             m1 == resolve([m EXCEPT !.ip = Adv(a, SizeofOpcode + SizeofPtr)],
                           dstVer)
             start == m1.vers[dstVer].startPtr
             patch == PatchedJump(start)
         IN  IF m1.res # "ok" THEN m1
             ELSE [m1 EXCEPT
                     !.code = Patch(Patch(m1.code, a, patch[1]),
                                    Adv(a, SizeofOpcode), patch[2]),
                     !.ip = start]

\* a jump that lands behind the opcode of its target
execJUMP_PastOpcode(m, a, dstAddr) ==
    [m EXCEPT !.ip = IF dstAddr.t = "addr" THEN dstAddr.a + SizeofOpcode
                     ELSE WildAddr]

execJUMP(m, a, dstAddr) ==
    [m EXCEPT !.ip = IF dstAddr.t = "addr" THEN dstAddr.a ELSE WildAddr]

\* addr < codeHeap || addr >= codeHeapLimit
OutsideHeap(p) == ~(p.t = "addr" /\ p.a >= codeHeap /\ p.a < codeHeapLimit)

\* a side that stores the resolved address in the bytes after its operand
takeSide_WrongOperand(m, at, addr) ==
    IF OutsideHeap(addr)
    THEN IF addr.t # "ver" THEN Fatal(m)
         ELSE LET ver == addr.a
                  m1 == resolve(m, ver)
                  start == m1.vers[ver].startPtr
              IN  IF m1.res # "ok" THEN m1
                  ELSE [m1 EXCEPT
                          !.code = Patch(m1.code, Adv(at, SizeofPtr),
                                         PtrCell(AddrPtr(start))),
                          !.ip = start]
    ELSE [m EXCEPT !.ip = addr.a]

\* one side of IF_TRUE: at is the address of the side's operand
takeSide(m, at, addr) ==
    IF OutsideHeap(addr)
    THEN IF addr.t # "ver" THEN Fatal(m)
         ELSE LET ver == addr.a
                  m1 == resolve(m, ver)
                  start == m1.vers[ver].startPtr
              IN  IF m1.res # "ok" THEN m1
                  ELSE [m1 EXCEPT
                          !.code = Patch(m1.code, at, PtrCell(AddrPtr(start))),
                          !.ip = start]
    ELSE [m EXCEPT !.ip = addr.a]

\* arg0 == Value::TRUE
TakesThen(arg0) == arg0 = TRUE_V

\* an if_true that also resolves the side it does not take
execIF_TRUE_BothSides(m, a, thenAddr, elseAddr) ==
    LET m0 == [m EXCEPT !.ip = Adv(a, SizeofOpcode + SizeofPtr + SizeofPtr)]
        m1 == popVal(m0)
        arg0 == PopTop(m0)
        th == Adv(a, SizeofOpcode)
        el == Adv(a, SizeofOpcode + SizeofPtr)
        taken == IF TakesThen(arg0) THEN takeSide(m1, th, thenAddr)
                 ELSE takeSide(m1, el, elseAddr)
        other == IF TakesThen(arg0) THEN takeSide(taken, el, elseAddr)
                 ELSE takeSide(taken, th, thenAddr)
    IN  IF m1.res # "ok" THEN m1
        ELSE IF taken.res # "ok" THEN taken
        ELSE [other EXCEPT !.ip = taken.ip]

\* an if_true that takes the then side once its else operand is patched
execIF_TRUE_PatchedElse(m, a, thenAddr, elseAddr) ==
    LET m0 == [m EXCEPT !.ip = Adv(a, SizeofOpcode + SizeofPtr + SizeofPtr)]
        m1 == popVal(m0)
        arg0 == PopTop(m0)
    IN  IF m1.res # "ok" THEN m1
        ELSE IF TakesThen(arg0) \/ ~OutsideHeap(elseAddr)
        THEN takeSide(m1, Adv(a, SizeofOpcode), thenAddr)
        ELSE takeSide(m1, Adv(a, SizeofOpcode + SizeofPtr), elseAddr)

execIF_TRUE(m, a, thenAddr, elseAddr) ==
    LET m0 == [m EXCEPT !.ip = Adv(a, SizeofOpcode + SizeofPtr + SizeofPtr)]
        m1 == popVal(m0)
        arg0 == PopTop(m0)
    IN  IF m1.res # "ok" THEN m1
        ELSE IF TakesThen(arg0)
        THEN takeSide(m1, Adv(a, SizeofOpcode), thenAddr)
        ELSE takeSide(m1, Adv(a, SizeofOpcode + SizeofPtr), elseAddr)

\* a RET that does not look at the return-address marker
execRET_AnyMarker(m, a, fun) ==
    LET m0 == [m EXCEPT !.ip = Adv(a, SizeofOpcode)]
        m1 == popVal(m0)
        m2 == callFunLeave(m1, fun)
    IN  IF m1.res # "ok" THEN m1
        ELSE IF m2.res # "ok" THEN m2
        ELSE [m2 EXCEPT !.ret = PopTop(m0), !.res = "ret"]

\* RET followed by the rest of callFun when execCode returns
execRET(m, a, fun) ==
    LET m0 == [m EXCEPT !.ip = Adv(a, SizeofOpcode)]
        retAddrVal == m0.stack[m0.bp + 1]
        m1 == popVal(m0)
        val == PopTop(m0)
    IN  IF m1.res # "ok" THEN m1
        ELSE IF retAddrVal.w = 0
        THEN LET m2 == callFunLeave(m1, fun)
             IN  IF m2.res # "ok" THEN m2
                 ELSE [m2 EXCEPT !.ret = val, !.res = "ret"]
        ELSE Fatal(m1)

(***************************************************************************)
(* readCode                                                                *)
(***************************************************************************)
Opcodes == {"PUSH", "DUP", "SUB_I64", "LT_I64", "GT_I64", "JUMP_STUB",
            "JUMP", "IF_TRUE", "RET"}

\* what bytes the compiler did not write may decode to
Garbage(kind) ==
    CASE kind = "op" -> Opcodes \cup {"OTHER"}
      [] kind = "val" -> GarbageVals
      [] kind = "idx" -> {0, 1}
      [] kind = "ptr" -> {WildPtr, AddrPtr(codeHeap)}
                           \cup {VerPtr(i) : i \in 1..Len(vers)}

\* the values readCode<T>() may return at address a
Written(a, kind) == a \in DOMAIN code /\ code[a].k = kind
Fetched(a, kind) ==
    IF Written(a, kind) THEN {code[a].v}
    ELSE Garbage(kind)

\* assert (instrPtr + sizeof(T) <= codeHeapLimit)
ReadOk(a, sz) == a = WildAddr \/ a + sz <= codeHeapLimit
ReadFails(a, sz) == a = WildAddr \/ ~(a + sz <= codeHeapLimit)

(***************************************************************************)
(* State machine                                                           *)
(***************************************************************************)
initInterp ==
    /\ \E img \in Images : litV = img[1] /\ loopN = img[2] /\ dupIdx = img[3]
    /\ code = [a \in {} |-> OpCell("RET")]
    /\ codeHeapAlloc = codeHeap
    /\ oobWrite = FALSE
    /\ versionMap = [b \in {} |-> << >>]
    /\ vers = << >>
    /\ stack = [i \in stackLimit..(stackBottom - 1) |-> UNDEF]
    /\ stackPtr = stackBottom
    /\ basePtr = NULL
    /\ instrPtr = NULL
    /\ status = "idle"
    /\ retVal = UNDEF
    /\ curFun = [entry |-> "cst"]
    /\ curArgs = << >>
    /\ compileCount = [b \in BlockIds |-> 0]
    /\ calls = 0
    /\ steps = 0
    /\ wild = 0
    /\ entered = [alloc |-> codeHeap, sp |-> stackBottom]
    /\ prior = [again |-> FALSE, val |-> UNDEF]

\* no value
NoVal == [tag |-> "none", w |-> 0]

\* ICache::ICache(fieldName)
ICache(fieldName) ==
    /\ icFieldName = fieldName
    /\ icSlotIdx = 0
    /\ icObj = << >>
    /\ icHint = 0
    /\ icRes = "none"
    /\ icVal = NoVal

\* the interpreter, and an ICache object that callFun and execCode do not
\* use: their own caches are the lookups hasField of compile and callFun
Init == initInterp /\ ICache("op")

StatusOf(m) ==
    CASE m.res = "ok" -> "running"
      [] m.res = "ret" -> "idle"
      [] OTHER -> m.res

Commit(m) ==
    /\ code' = m.code
    /\ codeHeapAlloc' = m.alloc
    /\ oobWrite' = m.oob
    /\ versionMap' = m.vmap
    /\ vers' = m.vers
    /\ compileCount' = m.cc
    /\ stack' = m.stack
    /\ stackPtr' = m.sp
    /\ basePtr' = m.bp
    /\ instrPtr' = m.ip
    /\ retVal' = m.ret
    /\ status' = StatusOf(m)
    /\ UNCHANGED <<litV, loopN, dupIdx>>
    /\ UNCHANGED icVars

\* a top-level call, up to the first dispatched instruction
CallFun(fun, args) ==
    /\ status \in {"idle", "error"}
    /\ calls < MaxCalls
    /\ Commit(callFunEnter(Cur, fun, args))
    /\ curFun' = fun
    /\ curArgs' = args
    /\ calls' = calls + 1
    /\ steps' = 0
    /\ entered' = [alloc |-> codeHeapAlloc, sp |-> stackPtr]
    /\ prior' = IF status = "idle" /\ calls > 0 /\ curFun = fun
                     /\ curArgs = args
                 THEN [again |-> TRUE, val |-> retVal]
                 ELSE [again |-> FALSE, val |-> UNDEF]
    /\ UNCHANGED wild

\* the assertion of readCode fails with instrPtr n bytes after the opcode
ReadAborts(n) == Fatal([Cur EXCEPT !.ip = Adv(instrPtr, n)])

\* the opcode fetch of the loop of execCode
Dispatch(o) ==
    /\ status = "running"
    /\ ReadOk(instrPtr, SizeofOpcode)
    /\ o \in Fetched(instrPtr, "op")
    /\ IF Written(instrPtr, "op") THEN UNCHANGED wild
       ELSE wild < MaxWild /\ wild' = wild + 1
    /\ steps' = IF steps < StepCap THEN steps + 1 ELSE steps
    /\ UNCHANGED <<curFun, curArgs, calls, entered, prior>>

\* an operand read: the assertion of readCode fails (ok is FALSE), or it
\* gives one of the values in Fetched
ReadOperand(a, sz, kind) ==
    (IF ReadOk(a, sz) THEN {[ok |-> TRUE, v |-> x] : x \in Fetched(a, kind)}
     ELSE {})
      \cup (IF ReadFails(a, sz) THEN {[ok |-> FALSE]} ELSE {})

ExecPUSH ==
    /\ Dispatch("PUSH")
    /\ \E val \in ReadOperand(Adv(instrPtr, SizeofOpcode), SizeofValue, "val") :
         Commit(IF val.ok THEN execPUSH(Cur, instrPtr, val.v)
                ELSE ReadAborts(SizeofOpcode))

ExecDUP ==
    /\ Dispatch("DUP")
    /\ \E idx \in ReadOperand(Adv(instrPtr, SizeofOpcode), SizeofIdx, "idx") :
         IF idx.ok
         THEN \E val \in StackRead(stack, stackPtr + idx.v) :
                 Commit(execDUP(Cur, instrPtr, val))
         ELSE Commit(ReadAborts(SizeofOpcode))

ExecSUB_I64 == Dispatch("SUB_I64") /\ Commit(execSUB_I64(Cur, instrPtr))

ExecLT_I64 == Dispatch("LT_I64") /\ Commit(execLT_I64(Cur, instrPtr))

ExecGT_I64 == Dispatch("GT_I64") /\ Commit(execGT_I64(Cur, instrPtr))

ExecJUMP_STUB ==
    /\ Dispatch("JUMP_STUB")
    /\ \E dst \in ReadOperand(Adv(instrPtr, SizeofOpcode), SizeofPtr, "ptr") :
         Commit(IF dst.ok THEN execJUMP_STUB(Cur, instrPtr, dst.v)
                ELSE ReadAborts(SizeofOpcode))

ExecJUMP ==
    /\ Dispatch("JUMP")
    /\ \E dst \in ReadOperand(Adv(instrPtr, SizeofOpcode), SizeofPtr, "ptr") :
         Commit(IF dst.ok THEN execJUMP(Cur, instrPtr, dst.v)
                ELSE ReadAborts(SizeofOpcode))

ExecIF_TRUE ==
    /\ Dispatch("IF_TRUE")
    /\ \E th \in ReadOperand(Adv(instrPtr, SizeofOpcode), SizeofPtr, "ptr"),
          el \in ReadOperand(Adv(instrPtr, SizeofOpcode + SizeofPtr),
                             SizeofPtr, "ptr") :
         Commit(IF ~th.ok THEN ReadAborts(SizeofOpcode)
                ELSE IF ~el.ok THEN ReadAborts(SizeofOpcode + SizeofPtr)
                ELSE execIF_TRUE(Cur, instrPtr, th.v, el.v))

ExecRET == Dispatch("RET") /\ Commit(execRET(Cur, instrPtr, curFun))

\* default: assert (false && "unhandled instruction in interpreter loop")
ExecUnhandled == Dispatch("OTHER") /\ Commit(ReadAborts(SizeofOpcode))

\* the assertion of readCode<Opcode>() fails
FetchFails ==
    /\ status = "running"
    /\ ReadFails(instrPtr, SizeofOpcode)
    /\ Commit(Fatal(Cur))
    /\ UNCHANGED <<curFun, curArgs, calls, steps, wild, entered, prior>>

Next ==
    \/ \E fun \in Funs, args \in ArgVecs : CallFun(fun, args)
    \/ ExecPUSH
    \/ ExecDUP
    \/ ExecSUB_I64
    \/ ExecLT_I64
    \/ ExecGT_I64
    \/ ExecJUMP_STUB
    \/ ExecJUMP
    \/ ExecIF_TRUE
    \/ ExecRET
    \/ ExecUnhandled
    \/ FetchFails

Spec == Init /\ [][Next]_vars

(***************************************************************************)
(* ICache on its own: one cache object, used on objects of every shape     *)
(***************************************************************************)
FieldNames == {"op", "val", "idx"}
FieldVals == {I64(1), I64(2)}

\* an object: its fields in slot order, every name at most once
Objects ==
    UNION {{o \in [1..n -> [name : FieldNames, val : FieldVals]] :
              \A i, j \in 1..n : o[i].name = o[j].name => i = j} :
           n \in 0..MaxFields}

\* Object::getField(name, value, slotIdx): the lookup by name; it reports
\* the slot of the field through slotIdx
ObjectGetField(obj, name, slotIdx) ==
    IF \E i \in 1..Len(obj) : obj[i].name = name
    THEN LET i == CHOOSE i \in 1..Len(obj) : obj[i].name = name
         IN  [found |-> TRUE, val |-> obj[i].val, slotIdx |-> i - 1]
    ELSE [found |-> FALSE, val |-> UNDEF, slotIdx |-> slotIdx]

\* a getField that takes the field in the recorded slot when there is one
getField_TrustSlot(fieldName, slotIdx, obj) ==
    IF slotIdx < Len(obj)
    THEN [res |-> "ok", val |-> obj[slotIdx + 1].val, slotIdx |-> slotIdx]
    ELSE LET r == ObjectGetField(obj, fieldName, slotIdx)
         IN  IF ~r.found
             THEN [res |-> "error", val |-> NoVal, slotIdx |-> r.slotIdx]
             ELSE [res |-> "ok", val |-> r.val, slotIdx |-> r.slotIdx]

\* ICache::getField of the cache (fieldName, slotIdx) on obj
getField(fieldName, slotIdx, obj) ==
    LET r == ObjectGetField(obj, fieldName, slotIdx)
    IN  IF ~r.found
        THEN [res |-> "error", val |-> NoVal, slotIdx |-> r.slotIdx]
        ELSE [res |-> "ok", val |-> r.val, slotIdx |-> r.slotIdx]

\* a call of getField on the cache object
CacheLookup(obj) ==
    /\ icObj' = obj
    /\ icHint' = icSlotIdx
    /\ icRes' = getField(icFieldName, icSlotIdx, obj).res
    /\ icVal' = getField(icFieldName, icSlotIdx, obj).val
    /\ icSlotIdx' = getField(icFieldName, icSlotIdx, obj).slotIdx
    /\ UNCHANGED icFieldName
    /\ UNCHANGED <<litV, loopN, dupIdx, code, codeHeapAlloc, oobWrite,
                   versionMap, vers, stack, stackPtr, basePtr, instrPtr,
                   status, retVal, curFun, curArgs, compileCount, calls,
                   steps, wild, entered, prior>>

CacheInit == initInterp /\ \E name \in FieldNames : ICache(name)

CacheNext == \E obj \in Objects : CacheLookup(obj)

CacheSpec == CacheInit /\ [][CacheNext]_vars

(***************************************************************************)
(* Properties                                                              *)
(***************************************************************************)
\* the cell at a of the code heap mem is the opcode o
IsOp(mem, a, o) == a \in DOMAIN mem /\ mem[a].k = "op" /\ mem[a].v = o

\* the dispatcher is about to execute the compiled instruction o
AtOp(o) ==
    /\ status = "running"
    /\ instrPtr < codeHeapAlloc
    /\ IsOp(code, instrPtr, o)

\* the dispatcher is about to execute an opcode that compile emitted: its
\* next step is the execution of that instruction
AtCompiledOp ==
    /\ status = "running"
    /\ instrPtr < codeHeapAlloc
    /\ Written(instrPtr, "op")
    /\ ReadOk(instrPtr, SizeofOpcode)

\* the current callFun dispatched some instruction of the body
executed == steps > 0

\* number of operands on the operand stack of the active frame
Depth == (stackBottom - 2 - curFun.num_locals) - stackPtr

\* callFun was entered with stackPtr at the bottom and n free code bytes
EnteredWithRoom(n) ==
    /\ calls > 0
    /\ entered.sp = stackBottom
    /\ entered.alloc + n <= codeHeapLimit

\* C1: compile-once: code is emitted for a block at most once, and a
\* BlockVersion's startPtr and endPtr, once set, never change: a second
\* callFun on the same function leaves the entry block's range as it was.
C1_CompileOnce ==
    [][/\ \A b \in BlockIds : compileCount'[b] <= 1
       /\ \A v \in 1..Len(vers) :
            /\ vers[v].startPtr # NULL
                 => vers'[v].startPtr = vers[v].startPtr
            /\ vers[v].endPtr # NULL
                 => vers'[v].endPtr = vers[v].endPtr]_vars

\* C2: a compiled JUMP_STUB, when executed, compiles its target only if the
\* target has no code, becomes JUMP with the target's startPtr as operand
\* and moves instrPtr there; a compiled JUMP keeps its opcode and operand
\* for ever, and executing it invokes no compile, writes nothing and moves
\* instrPtr to its operand.
C2_JumpStubOnce ==
    [][/\ AtOp("JUMP_STUB") /\ status' = "running"
            => LET a == instrPtr
                   ver == code[a + SizeofOpcode].v.a
                   start == vers'[ver].startPtr
               IN  /\ code[a + SizeofOpcode].v.t = "ver"
                   /\ IsOp(code', a, "JUMP")
                   /\ code'[a + SizeofOpcode] = PtrCell(AddrPtr(start))
                   /\ instrPtr' = start
                   /\ start # NULL
                   /\ vers[ver].startPtr # NULL
                        => start = vers[ver].startPtr
                   /\ \A b \in BlockIds :
                        compileCount'[b] = compileCount[b]
                          + (IF b = vers[ver].block
                                  /\ vers[ver].startPtr = NULL
                             THEN 1 ELSE 0)
       /\ AtOp("JUMP")
            => /\ compileCount' = compileCount
               /\ code' = code
               /\ vers' = vers
               /\ status' = "running"
               /\ instrPtr' = code[instrPtr + SizeofOpcode].v.a
       /\ \A a \in DOMAIN code :
            a < codeHeapAlloc /\ IsOp(code, a, "JUMP")
              => /\ IsOp(code', a, "JUMP")
                 /\ code'[a + SizeofOpcode] = code[a + SizeofOpcode]]_vars

\* a patched jump is about to be executed again: its target was compiled once
C2_Witness ==
    /\ AtOp("JUMP")
    /\ curFun.entry = "spin"
    /\ compileCount["spin"] = 1

\* C3: whenever callFun has returned a value, stackPtr is back at the value
\* it had when callFun was entered, which is stackBottom.
C3_FrameBalance ==
    status = "idle" /\ calls > 0
      => stackPtr = stackBottom /\ stackPtr = entered.sp

\* callFun returned from a function that took a branch
C3_Witness ==
    /\ status = "idle"
    /\ calls > 0
    /\ executed
    /\ curFun.entry \in {"cmp", "brEntry", "loopEntry"}

\* C4: dup idx with idx >= operand depth fails: it pushes nothing.
C4_DupBounds ==
    [][AtOp("DUP") /\ code[instrPtr + SizeofOpcode].v >= Depth
         => status' \in {"fatal", "error"} /\ stackPtr' = stackPtr]_vars

\* C5: callFun with a number of arguments different from num_params fails
\* and executes no instruction of the body.
C5_ArityCheck ==
    /\ calls > 0
    /\ hasField(curFun, "num_params")
    /\ hasField(curFun, "num_locals")
    /\ Len(curArgs) # curFun.num_params
    => status \in {"error", "fatal"} /\ ~executed

\* C6: stackLimit < stackPtr <= stackBottom in every state of a live process.
C6_StackPtrInvariant ==
    status # "fatal" => stackLimit < stackPtr /\ stackPtr <= stackBottom

\* C7: versionMap holds exactly one BlockVersion for every block it knows,
\* every BlockVersion is the one of its block, getBlockVersion on a known
\* block returns that one and changes nothing, and on a new block it creates
\* a version with startPtr and endPtr unset.
C7_VersionSingleton ==
    /\ \A b \in DOMAIN versionMap :
         /\ Len(versionMap[b]) = 1
         /\ versionMap[b][1] \in 1..Len(vers)
         /\ vers[versionMap[b][1]].block = b
         /\ getBlockVersion(Cur, b) = [st |-> Cur, ver |-> versionMap[b][1]]
    /\ \A i \in 1..Len(vers) :
         /\ vers[i].block \in DOMAIN versionMap
         /\ versionMap[vers[i].block] = <<i>>
    /\ \A b \in BlockIds \ DOMAIN versionMap :
         LET r == getBlockVersion(Cur, b)
         IN  /\ r.st.vmap[b] = <<r.ver>>
             /\ r.st.vers[r.ver].startPtr = NULL
             /\ r.st.vers[r.ver].endPtr = NULL
             /\ \A i \in 1..Len(vers) : r.st.vers[i] = vers[i]

\* the version of the loop block was requested by the jump of the entry
\* block, by the if_true of the loop block, and compiled
C7_Witness ==
    /\ status = "idle"
    /\ curFun.entry = "loopEntry"
    /\ "loop" \in DOMAIN versionMap
    /\ compileCount["loop"] = 1

\* what C8 says of the side of an if_true that is not taken: its operand
\* cell keeps its value and, if its target had no code, it still has none
\* and was not compiled
NotTakenUntouched(at) ==
    /\ code'[at] = code[at]
    /\ code[at].v.t = "ver" /\ vers[code[at].v.a].startPtr = NULL
         => /\ vers'[code[at].v.a].startPtr = NULL
            /\ compileCount'[vers[code[at].v.a].block]
                 = compileCount[vers[code[at].v.a].block]

ThenOperand == instrPtr + SizeofOpcode
ElseOperand == instrPtr + SizeofOpcode + SizeofPtr

\* C8 as claimed: an if_true that takes the then side leaves the else
\* operand unchanged and the else target uncompiled, and symmetrically.
C8_IfTrueOtherSide ==
    [][AtOp("IF_TRUE") /\ stackPtr < stackBottom
         => IF TakesThen(stack[stackPtr])
            THEN NotTakenUntouched(ElseOperand)
            ELSE NotTakenUntouched(ThenOperand)]_vars

\* C8 as amended: the same, for an if_true whose two operands differ; when
\* both name the same version only the operand cell is left unchanged.
C8_IfTrueOtherSideDistinct ==
    [][AtOp("IF_TRUE") /\ stackPtr < stackBottom
         => LET untaken == IF TakesThen(stack[stackPtr])
                           THEN ElseOperand ELSE ThenOperand
            IN  /\ code'[untaken] = code[untaken]
                /\ code[ThenOperand] # code[ElseOperand]
                     => NotTakenUntouched(untaken)]_vars

\* an if_true whose then side was resolved and whose else side still names
\* a version without code
C8_Witness ==
    \E a \in DOMAIN code :
        /\ IsOp(code, a, "IF_TRUE")
        /\ a < codeHeapAlloc
        /\ code[a + SizeofOpcode].v.t = "addr"
        /\ code[a + SizeofOpcode + SizeofPtr].v.t = "ver"
        /\ vers[code[a + SizeofOpcode + SizeofPtr].v.a].startPtr = NULL

\* callFun on the counted loop, entered with room for its three blocks
LoopBytes ==
    (SizeofOpcode + SizeofValue) + (SizeofOpcode + SizeofPtr)
      + 2 * (SizeofOpcode + SizeofValue) + 2 * SizeofOpcode
      + (SizeofOpcode + SizeofIdx) + (SizeofOpcode + 2 * SizeofPtr)
      + SizeofOpcode
LoopCall ==
    /\ curFun = Fun("loopEntry", 0, 0)
    /\ curArgs = << >>
    /\ EnteredWithRoom(LoopBytes)

\* C9: the counted loop, for every initial counter N >= 1, terminates (the
\* dispatcher always has a compiled instruction to execute until callFun
\* returns, which it does after 6N + 3 instructions) and
\* returns 0, and its loop block is compiled exactly once.
C9_CountedLoop ==
    LoopCall
      => /\ status \in {"running", "idle"}
         /\ compileCount["loop"] <= 1
         /\ steps <= 6 * loopN + 3
         /\ status = "running" => AtCompiledOp
         /\ status = "idle"
              => /\ retVal = I64(0)
                 /\ compileCount["loop"] = 1
                 /\ steps = 6 * loopN + 3

C9_Witness ==
    /\ LoopCall
    /\ status = "idle"
    /\ loopN > 1
    /\ retVal = I64(0)

\* callFun on `push v; ret` without arguments, entered with room for it
CstBytes == (SizeofOpcode + SizeofValue) + SizeofOpcode
CstCall ==
    /\ curFun = Fun("cst", 0, 0)
    /\ curArgs = << >>
    /\ EnteredWithRoom(CstBytes)

\* C10: callFun on `push v; ret`, without parameters and arguments, returns
\* exactly v, after these two instructions.
C10_PushRet ==
    CstCall
      => /\ status \in {"running", "idle"}
         /\ steps <= 2
         /\ status = "running" => AtCompiledOp
         /\ status = "idle" => retVal = litV /\ steps = 2

C10_Witness ==
    /\ CstCall
    /\ status = "idle"
    /\ litV = I64(777)
    /\ retVal = I64(777)

\* callFun on `push v; dup 0; sub_i64; ret` with an int64 v, entered with
\* room for it
DupBytes ==
    (SizeofOpcode + SizeofValue) + (SizeofOpcode + SizeofIdx)
      + 2 * SizeofOpcode
DupCall ==
    /\ curFun \in {Fun("dupB", 0, 0), Fun("dupB", 1, 1)}
    /\ Len(curArgs) <= curFun.num_params
    /\ dupIdx = 0
    /\ IsInt64(litV)
    /\ EnteredWithRoom(DupBytes)

\* C11: after `push v; dup 0` the two topmost operand slots hold v; the
\* following sub_i64 replaces them with the single value 0: the operand
\* depth, 0 before the three instructions, is 2 after the dup and 1 after
\* the sub_i64.
C11_PushDupSub ==
    DupCall
      => /\ status \in {"running", "idle"}
         /\ status = "running" => AtCompiledOp
         /\ status = "running" /\ steps = 0 => Depth = 0
         /\ status = "running" /\ steps = 1
              => Depth = 1 /\ stack[stackPtr] = litV
         /\ status = "running" /\ steps = 2
              => /\ Depth = 2
                 /\ stack[stackPtr] = litV
                 /\ stack[stackPtr + 1] = litV
         /\ status = "running" /\ steps = 3
              => Depth = 1 /\ stack[stackPtr] = I64(0)

\* the sub_i64 after `push 777; dup 0` has been executed
C11_Witness ==
    /\ DupCall
    /\ litV = I64(777)
    /\ status = "running"
    /\ steps = 3
    /\ stack[stackPtr] = I64(0)

\* the frame is the one callFun set up: popping the operand on top and the
\* frame brings stackPtr back to stackBottom
Balanced == stackPtr + 1 + curFun.num_locals + 2 = stackBottom

\* C12: a ret that has an operand to pop reads the return-address marker of
\* the frame; when the marker is null the popped value is returned (callFun
\* hands it to its caller when its closing assertion holds, and aborts
\* otherwise); when the marker is not null the process aborts and no value
\* is returned.
C12_TopLevelRet ==
    [][AtOp("RET") /\ stackPtr < stackBottom
         => IF stack[basePtr + 1].w = 0
            THEN IF Balanced
                 THEN status' = "idle" /\ retVal' = stack[stackPtr]
                 ELSE status' = "fatal" /\ retVal' = retVal
            ELSE status' = "fatal" /\ retVal' = retVal]_vars

\* a first call returned 1 through a null marker; the ret of a second call
\* found the marker overwritten by the argument 6 and aborted
C12_Witness ==
    /\ status = "fatal"
    /\ curFun = Fun("cst", 2, 2)
    /\ steps = 2
    /\ stack[basePtr + 1] = I64(6)
    /\ retVal = I64(1)

\* callFun has set up the frame and no instruction was dispatched yet
FrameJustSetUp == status = "running" /\ steps = 0

\* the slots callFun reserved for the locals, as long as no operand of the
\* frame was popped below them
LocalSlots == (stackBottom - 2 - curFun.num_locals) .. (stackBottom - 3)

\* C13: after callFun's frame setup with k arguments the k arguments are in
\* k distinct slots of the locals region and the two header slots hold the
\* saved-caller placeholder and the null return-address marker.
C13_FrameSetup ==
    FrameJustSetUp
      => /\ stack[stackBottom - 1] = I64(0)
         /\ stack[stackBottom - 2] = RetAddrNull
         /\ \E f \in [1..Len(curArgs) -> LocalSlots] :
              /\ \A i, j \in 1..Len(curArgs) : f[i] = f[j] => i = j
              /\ \A i \in 1..Len(curArgs) : stack[f[i]] = curArgs[i]

\* the operand of the side an if_true about to be executed takes
TakenOperand ==
    IF TakesThen(stack[stackPtr]) THEN ThenOperand ELSE ElseOperand

\* after the step the version ver has an empty compiled body, and the
\* process has aborted
EmptyAborts(ver) ==
    vers'[ver].startPtr # NULL /\ vers'[ver].endPtr = vers'[ver].startPtr
      => status' = "fatal"

\* C14: a jump stub or an unresolved if_true side whose target turns out to
\* have an empty compiled body aborts the process: the dispatcher does not
\* go on at the address of the empty body.
C14_EmptyTargetFatal ==
    [][/\ AtOp("JUMP_STUB") /\ code[instrPtr + SizeofOpcode].v.t = "ver"
            => EmptyAborts(code[instrPtr + SizeofOpcode].v.a)
       /\ AtOp("IF_TRUE") /\ stackPtr < stackBottom
                          /\ code[TakenOperand].v.t = "ver"
            => EmptyAborts(code[TakenOperand].v.a)]_vars

\* C15: in every state of a live process outside a running compile, also
\* after a compile that ended with a reported error, every BlockVersion has
\* startPtr and endPtr both unset, or both set with startPtr <= endPtr.
C15_StartEndTogether ==
    status # "fatal"
      => \A v \in 1..Len(vers) :
            \/ vers[v].startPtr = NULL /\ vers[v].endPtr = NULL
            \/ /\ vers[v].startPtr # NULL
               /\ vers[v].endPtr # NULL
               /\ vers[v].startPtr <= vers[v].endPtr

\* the operand at `at` of a compiled if_true is resolved: it holds the
\* address of code
Resolved(mem, at) == mem[at].v.t = "addr"

\* C16: an if_true that takes a side whose operand still names a version
\* compiles the target only if it has no code, stores the target's startPtr,
\* an address inside [codeHeap, codeHeapLimit), in that operand and goes
\* there; one that takes a resolved side goes to the stored address, invokes
\* no compile and writes nothing; the opcode stays IF_TRUE and a resolved
\* operand keeps its value for ever.
C16_IfTruePatching ==
    [][/\ AtOp("IF_TRUE") /\ stackPtr < stackBottom /\ status' = "running"
            => /\ IsOp(code', instrPtr, "IF_TRUE")
               /\ ~Resolved(code, TakenOperand)
                    => LET ver == code[TakenOperand].v.a
                           start == vers'[ver].startPtr
                       IN  /\ code[TakenOperand].v.t = "ver"
                           /\ code'[TakenOperand] = PtrCell(AddrPtr(start))
                           /\ start >= codeHeap /\ start < codeHeapLimit
                           /\ instrPtr' = start
                           /\ vers[ver].startPtr # NULL
                                => start = vers[ver].startPtr
                           /\ \A b \in BlockIds :
                                compileCount'[b] = compileCount[b]
                                  + (IF b = vers[ver].block
                                          /\ vers[ver].startPtr = NULL
                                     THEN 1 ELSE 0)
               /\ Resolved(code, TakenOperand)
                    => /\ instrPtr' = code[TakenOperand].v.a
                       /\ compileCount' = compileCount
                       /\ code' = code
                       /\ vers' = vers
       /\ \A a \in DOMAIN code :
            a < codeHeapAlloc /\ IsOp(code, a, "IF_TRUE")
              => /\ IsOp(code', a, "IF_TRUE")
                 /\ \A at \in {a + SizeofOpcode,
                               a + SizeofOpcode + SizeofPtr} :
                      Resolved(code, at) => code'[at] = code[at]]_vars

\* the versions the compiled branch about to be executed names on the side
\* it takes and that have no code yet
UnresolvedTargets ==
    IF AtOp("JUMP_STUB")
    THEN {v \in 1..Len(vers) :
            /\ code[instrPtr + SizeofOpcode].v = VerPtr(v)
            /\ vers[v].startPtr = NULL}
    ELSE IF AtOp("IF_TRUE") /\ stackPtr < stackBottom
    THEN {v \in 1..Len(vers) :
            /\ code[TakenOperand].v = VerPtr(v)
            /\ vers[v].startPtr = NULL}
    ELSE {}

\* the blocks compile is invoked on in the step
Compiled == {b \in BlockIds : compileCount'[b] # compileCount[b]}

\* C17: compile is invoked only on the entry block of the function callFun
\* is called on, or, by the dispatcher, on the one target without code of
\* the branch side it takes, and control goes there; compiling a block gives
\* the targets of its branches versions without code; a version gets a
\* startPtr, and codeHeapAlloc moves, only in a step that invokes compile.
C17_Laziness ==
    [][/\ status \in {"idle", "error"}
            => \A b \in Compiled :
                 /\ hasField(curFun', "entry") /\ b = curFun'.entry
                 /\ compileCount'[b] = compileCount[b] + 1
       /\ AtCompiledOp
            => \A b \in BlockIds :
                 compileCount'[b] = compileCount[b]
                   + (IF \E v \in UnresolvedTargets : vers[v].block = b
                      THEN 1 ELSE 0)
       /\ status = "running"
            => \A b \in Compiled :
                 /\ compileCount'[b] = compileCount[b] + 1
                 /\ Compiled = {b}
                 /\ \E v \in 1..Len(vers) :
                      /\ vers[v].block = b
                      /\ vers[v].startPtr = NULL
                      /\ status' = "running"
                           => instrPtr' = vers'[v].startPtr
       /\ \A v \in 1..Len(vers') :
            (v > Len(vers) \/ vers'[v] # vers[v]) /\ vers'[v].startPtr # NULL
              => vers'[v].block \in Compiled
       /\ codeHeapAlloc' # codeHeapAlloc
            => Compiled # {} /\ codeHeapAlloc' > codeHeapAlloc
       /\ \A v \in 1..Len(vers') :
            vers'[v].startPtr # NULL => compileCount'[vers'[v].block] > 0]_vars

\* callFun returned from `push v; if_true T E`: both targets have a version,
\* one of them has code
C17_Witness ==
    /\ status = "idle"
    /\ calls = 1
    /\ curFun.entry = "brEntry"
    /\ {"thenB", "elseB"} \subseteq DOMAIN versionMap
    /\ compileCount["thenB"] + compileCount["elseB"] = 1
    /\ \E v \in 1..Len(vers) :
         vers[v].block \in {"thenB", "elseB"} /\ vers[v].startPtr = NULL

\* the cursor is inside the code heap and nothing was written at or beyond
\* codeHeapLimit
CursorInHeap ==
    /\ status # "fatal"
         => codeHeap <= codeHeapAlloc /\ codeHeapAlloc <= codeHeapLimit
    /\ ~oobWrite

\* C18: codeHeap <= codeHeapAlloc <= codeHeapLimit in every state of a live
\* process, codeHeapAlloc never decreases, and no byte at or beyond
\* codeHeapLimit is ever written, also when an emission aborts because
\* fewer bytes remain than the value emitted takes.
C18_CodeHeapCursor ==
    [][/\ CursorInHeap
       /\ CursorInHeap'
       /\ codeHeapAlloc' >= codeHeapAlloc]_vars

\* the cell at c holds the same in the code heaps mem and new
SameCell(mem, new, c) ==
    /\ c \in DOMAIN mem
    /\ c \in DOMAIN new
    /\ mem[c].k = new[c].k
    /\ mem[c].v = new[c].v

\* the cells compile emitted below the cursor
CompiledCells == {c \in DOMAIN code : c + code[c].sz <= codeHeapAlloc}

\* the cell at c is one the dispatcher patches in the step: the opcode or the
\* operand of the jump stub it executes, or the operand of the if_true side
\* it takes
PatchedByStep(c) ==
    \/ AtOp("JUMP_STUB") /\ c \in {instrPtr, instrPtr + SizeofOpcode}
    \/ AtOp("IF_TRUE") /\ stackPtr < stackBottom /\ c = TakenOperand

\* the compiled ranges of two different versions do not overlap
RangesDisjoint ==
    \A v, w \in 1..Len(vers) :
        /\ v # w
        /\ vers[v].startPtr # NULL /\ vers[v].endPtr # NULL
        /\ vers[w].startPtr # NULL /\ vers[w].endPtr # NULL
        => \/ vers[v].endPtr <= vers[w].startPtr
           \/ vers[w].endPtr <= vers[v].startPtr

\* C19: a step changes no cell below the cursor except the ones the
\* dispatcher patches (compile writes only at or above the cursor it starts
\* from); what a step writes lies at or above the old cursor or is such a
\* patch; the compiled ranges of different versions do not overlap.
C19_CodeImmutable ==
    [][/\ \A c \in CompiledCells :
            \/ SameCell(code, code', c)
            \/ PatchedByStep(c)
       /\ \A c \in DOMAIN code' :
            \/ SameCell(code, code', c)
            \/ c >= codeHeapAlloc
            \/ PatchedByStep(c)
       /\ status' # "fatal" => RangesDisjoint']_vars

\* a second callFun emitted code above the code of a first one, in which an
\* if_true side was resolved
C19_Witness ==
    /\ status = "idle"
    /\ calls = 2
    /\ entered.alloc > codeHeap
    /\ codeHeapAlloc > entered.alloc
    /\ \E a \in DOMAIN code :
         /\ a < entered.alloc
         /\ IsOp(code, a, "IF_TRUE")
         /\ \/ Resolved(code, a + SizeofOpcode)
            \/ Resolved(code, a + SizeofOpcode + SizeofPtr)

\* the header slots of the frame: callFun, entered with stackPtr at
\* entered.sp, pushes the saved-caller placeholder and then the
\* return-address marker
SavedCallerSlot == entered.sp - 1
RetAddrSlot == entered.sp - 2

\* the frame layout C20 describes, while a frame is active
FrameLayout ==
    status = "running"
      => /\ basePtr = SavedCallerSlot
         /\ basePtr + 1 = RetAddrSlot
         /\ stackPtr <= RetAddrSlot - curFun.num_locals
         /\ FrameJustSetUp => stackPtr = RetAddrSlot - curFun.num_locals

\* C20: while a frame is active basePtr points at its saved-caller slot, the
\* slot ret reads the return-address marker from (basePtr[1]) is its
\* return-address slot, the locals lie right below the header and stackPtr
\* stays at or below the lowest local; no dispatched instruction changes
\* basePtr.
C20_FrameLayout ==
    [][/\ FrameLayout
       /\ FrameLayout'
       /\ status = "running" => basePtr' = basePtr]_vars

\* the number of operands the compiled instruction at instrPtr pops
Pops ==
    IF AtOp("SUB_I64") \/ AtOp("LT_I64") \/ AtOp("GT_I64") THEN 2
    ELSE IF AtOp("IF_TRUE") \/ AtOp("RET") THEN 1
    ELSE 0

\* C21: an instruction that pops more operands than the operand stack of
\* the frame holds aborts the process as a stack violation: it pops
\* nothing, so no local and no header slot is consumed and stackPtr does not
\* move above the locals.
C21_OperandUnderflow ==
    [][AtCompiledOp /\ Depth >= 0 /\ Depth < Pops
         => /\ status' = "fatal"
            /\ stackPtr' = stackPtr
            /\ stack' = stack]_vars

\* the step leaves stackPtr and the stack as they are and aborts
StackViolation ==
    /\ status' = "fatal"
    /\ stackPtr' = stackPtr
    /\ stack' = stack

\* the step pushed val: stackPtr is one slot lower, val is there and the
\* other slots are as before
Pushed(val) ==
    /\ status' = "running"
    /\ stackPtr' = stackPtr - 1
    /\ stack'[stackPtr'] = val
    /\ \A i \in DOMAIN stack \ {stackPtr'} : stack'[i] = stack[i]

\* C22: a push (of push or dup) with stackPtr at stackLimit and a pop (of
\* if_true or ret) with stackPtr at stackBottom abort and leave stackPtr and
\* the stack unchanged; otherwise the push moves stackPtr one slot down and
\* stores the value there, and the pop gives the value at stackPtr (the
\* condition of the if_true, the value returned) and moves stackPtr one
\* slot up (callFun then releases the frame of a ret it returns from).
C22_PushPopGuards ==
    [][/\ AtOp("PUSH")
            => IF stackPtr = stackLimit THEN StackViolation
               ELSE \E val \in Fetched(instrPtr + SizeofOpcode, "val") :
                       Pushed(val)
       /\ AtOp("DUP")
            => IF stackPtr = stackLimit THEN StackViolation
               ELSE \E val \in GarbageVals \cup {stack[i] : i \in DOMAIN stack} :
                       Pushed(val)
       /\ AtOp("IF_TRUE")
            => IF stackPtr = stackBottom THEN StackViolation
               ELSE /\ stackPtr' = stackPtr + 1
                    /\ stack' = stack
                    /\ (/\ status' = "running"
                        /\ Written(TakenOperand, "ptr")
                        /\ Resolved(code, TakenOperand))
                         => instrPtr' = code[TakenOperand].v.a
       /\ AtOp("RET")
            => IF stackPtr = stackBottom THEN StackViolation
               ELSE /\ stackPtr' = IF stack[basePtr + 1].w = 0
                                    THEN stackPtr + 1 + curFun.num_locals + 2
                                    ELSE stackPtr + 1
                    /\ stack' = stack
                    /\ status' = "idle" => retVal' = stack[stackPtr]]_vars

\* an if_true popped the two header slots and a third pop found stackPtr at
\* stackBottom
C22_Witness ==
    /\ status = "fatal"
    /\ curFun = Fun("popLoop", 0, 0)
    /\ steps = 3
    /\ stackPtr = stackBottom

\* the object has a field of that name
HasFieldNamed(obj, name) == \E i \in 1..Len(obj) : obj[i].name = name

\* C23: getField returns the value bound to the cache's field name in the
\* object, whatever slot index the cache recorded before, and raises the
\* missing-field error, returning no value, exactly when the object has no
\* field of that name.
C23_ICacheGetField ==
    icRes # "none"
      => /\ icRes \in {"ok", "error"}
         /\ icRes = "error" <=> ~HasFieldNamed(icObj, icFieldName)
         /\ icRes = "error" => icVal = NoVal
         /\ icRes = "ok"
              => \E i \in 1..Len(icObj) :
                    /\ icObj[i].name = icFieldName
                    /\ icObj[i].val = icVal

\* the cache had recorded the slot of another field of the object
C23_Witness ==
    /\ icRes = "ok"
    /\ icHint < Len(icObj)
    /\ icObj[icHint + 1].name # icFieldName
    /\ icObj[icHint + 1].val # icVal

\* the last call was made on the function and arguments of the call before
\* it, which had returned
SameCallAgain == calls >= 2 /\ prior.again

\* C24: a call of callFun on a function and arguments returns the value
\* that the call before it on the same function and arguments returned,
\* although the earlier call found its blocks uncompiled and its branches
\* stubs and the later one finds them compiled and patched.
C24_PatchingTransparency ==
    SameCallAgain /\ status = "idle" => retVal = prior.val

\* two calls on `jump brArg`, brArg being `dup 0; if_true thenB elseB`: the
\* second one runs brArg with its else operand patched
C24_Witness ==
    /\ SameCallAgain
    /\ status = "idle"
    /\ curFun = Fun("jmpArg", 1, 1)
    /\ compileCount["jmpArg"] = 2
    /\ compileCount["brArg"] = 1
    /\ compileCount["elseB"] = 1
    /\ retVal = I64(2)
    /\ prior.val = I64(2)

\* the instructions that end a block
Terminators == {"jump", "if_true", "ret"}

\* the block is not empty and has a jump, if_true or ret as its last
\* instruction and nowhere else
WellFormedBlock(b) ==
    /\ "instrs" \in DOMAIN BlockObj(b)
    /\ LET instrs == BlockObj(b).instrs
       IN  /\ Len(instrs) > 0
           /\ \A i \in 1..Len(instrs) :
                 instrs[i].op \in Terminators <=> i = Len(instrs)

\* the blocks the last instruction of a well-formed block names
Targets(b) ==
    IF ~WellFormedBlock(b) THEN {}
    ELSE LET last == BlockObj(b).instrs[Len(BlockObj(b).instrs)]
         IN  IF last.op = "jump" THEN {last.to}
             ELSE IF last.op = "if_true" THEN {last.then, last.else}
             ELSE {}

RECURSIVE BlocksFrom(_)
\* the blocks that can be reached from the blocks of S
BlocksFrom(S) ==
    LET T == S \cup UNION {Targets(b) : b \in S}
    IN  IF T = S THEN S ELSE BlocksFrom(T)

\* the function callFun was last called on is made of well-formed blocks
WellFormedProgram ==
    /\ "entry" \in DOMAIN curFun
    /\ \A b \in BlocksFrom({curFun.entry}) : WellFormedBlock(b)

\* instrPtr is at an opcode that compile emitted within the range of a
\* compiled version
InCompiledRange ==
    /\ Written(instrPtr, "op")
    /\ \E v \in 1..Len(vers) :
          /\ vers[v].startPtr # NULL
          /\ vers[v].endPtr # NULL
          /\ vers[v].startPtr <= instrPtr
          /\ instrPtr < vers[v].endPtr

CstLocalsCall ==
    /\ DOMAIN curFun = {"entry", "num_params", "num_locals"}
    /\ curFun.entry = "cst"
    /\ curFun.num_params = 0
    /\ curArgs = << >>
    /\ EnteredWithRoom(CstBytes)

\* slots the frame of the function needs: the two header slots, the locals
\* and one operand
CstFrameSlots == 2 + curFun.num_locals + 1

\* right after initInterp the stack pointer is at the bottom of the stack,
\* STACK_INIT_SIZE slots above stackLimit
InitialStackSpan ==
    calls = 0 => /\ stackPtr = stackBottom
                 /\ stackPtr - stackLimit = STACK_INIT_SIZE

\* the call does not abort when the frame needs no more than
\* STACK_INIT_SIZE slots
CstFrameFits ==
    CstLocalsCall /\ CstFrameSlots <= STACK_INIT_SIZE => status # "fatal"

\* C26: after initInterp stackPtr is at stackBottom, STACK_INIT_SIZE slots
\* above stackLimit, and a frame whose header, locals and operands need at
\* most STACK_INIT_SIZE slots fits.
C26_StackCapacity == InitialStackSpan /\ CstFrameFits

\* C27: once a reported runtime error has ended callFun, stackPtr is back at
\* stackBottom, where the entry check of the next callFun wants it.
C27_StateAfterError ==
    status = "error" => stackPtr = stackBottom

TypeOK ==
    /\ status \in {"idle", "running", "error", "fatal"}
    /\ codeHeapAlloc \in Nat

====
